---- MODULE Spec2Model ----
(***************************************************************************)
(* Model of the ENC demo repository: the publisher pipeline                *)
(* (src/process_data.py, class WebsiteDataProcessor) and the query service *)
(* (src/app.py).                                                           *)
(*                                                                         *)
(* Representation.                                                          *)
(*   - A file or directory name is a sequence of one-character strings,    *)
(*     so that startswith, endswith, lower, splitext and sorted are        *)
(*     computed character by character as Python computes them.            *)
(*   - A JSON object is a function from keys (strings) to JSON values.     *)
(*   - The content of a file is the sequence of values written to it:      *)
(*     <<v>> is a file holding the one JSON value v, <<>> is a file that   *)
(*     holds no complete value: empty or cut short (json.load rejects it). *)
(*     An image file is <<bytes>>, and <<>> when its copy was cut short.   *)
(*   - A directory is a function from the names of its entries to their    *)
(*     contents.                                                           *)
(***************************************************************************)
EXTENDS Integers, Sequences, FiniteSets, TLC

VARIABLES
    imageDir,     \* source  raw_images/ : name -> file
    resultsRoot,  \* source  raw_results/ : name -> [isdir, files]
    keywordsDir,  \* source  keyword_identification/gpt-4o/ : name -> file
    out,          \* the output tree under <output_path>/data
    pc,           \* where the publisher is
    rerun,        \* FALSE during the first process() call, TRUE during the second
    models,       \* process_files: local `models`
    images,       \* process_files: local `images`
    i,            \* process_files: index of the current image in `images`
    j,            \* process_files: index of the current model in `models`
    logged,       \* number of logger.error calls
    out1,         \* the output tree as the first process() call left it
    resp,         \* the last answer of a read operation
    json_data,    \* reshape: the caller's document object
    is_keyword,   \* reshape: the mode flag
    arg0,         \* reshape: the caller's document as it was before the call
    ret,          \* reshape: the returned document
    called        \* reshape: whether process_json_content has returned

vars == <<imageDir, resultsRoot, keywordsDir, out, pc, rerun, models, images,
          i, j, logged, out1, resp, json_data, is_keyword, arg0, ret, called>>

treeVars == <<imageDir, resultsRoot, keywordsDir>>
pubVars == <<out, pc, rerun, models, images, i, j, logged, out1>>
reshapeVars == <<json_data, is_keyword, arg0, ret, called>>

---------------------------------------------------------------------------
(* Bounds of the model.                                                    *)

MaxImages == 2   \* entries of raw_images/
MaxFiles == 2    \* JSON files in the whole source tree
MaxVal == 2      \* distinct non-empty JSON values in a document

---------------------------------------------------------------------------
(* Python strings.                                                         *)

\* The characters in use, in increasing code point order.
CodePoints ==
    <<".", "1", "2", "G", "J", "N", "P", "_", "a", "b", "e", "g", "j",
      "m", "n", "o", "p", "s", "t", "x">>

ord(c) == CHOOSE k \in 1..Len(CodePoints) : CodePoints[k] = c

\* str.lower on one character
char_lower(c) ==
    CASE c = "G" -> "g"
      [] c = "J" -> "j"
      [] c = "N" -> "n"
      [] c = "P" -> "p"
      [] OTHER -> c

str_lower(s) == [k \in 1..Len(s) |-> char_lower(s[k])]

startswith(s, prefix) ==
    /\ Len(prefix) <= Len(s)
    /\ SubSeq(s, 1, Len(prefix)) = prefix

endswith(s, suffix) ==
    /\ Len(suffix) <= Len(s)
    /\ SubSeq(s, Len(s) - Len(suffix) + 1, Len(s)) = suffix

\* s < t in Python's string order: code point by code point, a proper
\* prefix before the longer string.
RECURSIVE str_lt(_, _)
str_lt(s, t) ==
    IF t = <<>> THEN FALSE
    ELSE IF s = <<>> THEN TRUE
    ELSE IF s[1] = t[1] THEN str_lt(Tail(s), Tail(t))
    ELSE ord(s[1]) < ord(t[1])

\* sorted(list): insertion into the sorted prefix, stable.
RECURSIVE insert_sorted(_, _)
insert_sorted(sortedList, x) ==
    IF sortedList = <<>> THEN <<x>>
    ELSE IF str_lt(x, sortedList[1]) THEN <<x>> \o sortedList
    ELSE <<sortedList[1]>> \o insert_sorted(Tail(sortedList), x)

RECURSIVE sorted(_)
sorted(list) ==
    IF list = <<>> THEN <<>>
    ELSE insert_sorted(sorted(SubSeq(list, 1, Len(list) - 1)), list[Len(list)])

\* os.path.splitext on a name without separators: the extension starts at
\* the last dot, unless only dots precede that dot.
LastDot(p) ==
    IF \E k \in 1..Len(p) : p[k] = "."
    THEN CHOOSE k \in 1..Len(p) :
             p[k] = "." /\ \A l \in (k + 1)..Len(p) : p[l] # "."
    ELSE 0

os_path_splitext(p) ==
    LET d == LastDot(p) IN
    IF d > 0 /\ \E k \in 1..(d - 1) : p[k] # "."
    THEN <<SubSeq(p, 1, d - 1), SubSeq(p, d, Len(p))>>
    ELSE <<p, <<>>>>

---------------------------------------------------------------------------
(* The file system.                                                        *)

\* The orders in which a listing can return the names of a set.
Orders(S) ==
    {s \in [1..Cardinality(S) -> S] : \A x \in S : \E k \in 1..Cardinality(S) : s[k] = x}

\* os.listdir returns the entries in an order the file system chooses:
\* `order`, one of ListingOrders(dir), is that order.
ListingOrders(dir) == Orders(DOMAIN dir)

os_listdir(dir, order) == SelectSeq(order, LAMBDA n : n \in DOMAIN dir)

os_path_isdir(root, d) == d \in DOMAIN root /\ root[d].isdir

\* The value a Python name has when the call that should set it raised.
FileNotFoundError == <<"FileNotFoundError">>

\* None (falsy, as the empty string is).
None == <<>>

\* json.load: a file holding exactly one JSON value parses.
Parses(file) == Len(file) = 1
json_load(file) == file[1]

\* open(path, 'a') in place of open(path, 'w'): the dump is appended.
open_a_dump(dir, name, value) ==
    [n \in DOMAIN dir \cup {name} |->
        IF n = name
        THEN (IF name \in DOMAIN dir THEN dir[name] ELSE <<>>) \o <<value>>
        ELSE dir[n]]

\* with open(path, 'w') as f: json.dump(value, f): the file is truncated
\* and then holds the dumped value.
open_w_dump(dir, name, value) ==
    [n \in DOMAIN dir \cup {name} |-> IF n = name THEN <<value>> ELSE dir[n]]

\* open(path, 'w') alone: the file exists and is empty.
open_w(dir, name) ==
    [n \in DOMAIN dir \cup {name} |-> IF n = name THEN <<>> ELSE dir[n]]

---------------------------------------------------------------------------
(* JSON documents and the reshaper.                                        *)

EmptyObj == <<>>

\* dict.get(key, default)
dict_get(d, key, default) == IF key \in DOMAIN d THEN d[key] ELSE default

\* del d[key]
dict_del(d, key) == [k \in DOMAIN d \ {key} |-> d[k]]

\* process_json_content with the defaults of dict.get forgotten: a key the
\* input lacks is left out of the annotation document.
process_json_content_nodefault(doc, keyword) ==
    IF keyword
    THEN [ret |-> [k \in {"ocr_results", "identified_keywords", "statistics"}
                          \cap DOMAIN doc |-> doc[k]],
          json_data |-> doc]
    ELSE IF "metadata" \in DOMAIN doc
         THEN [ret |-> dict_del(doc, "metadata"),
               json_data |-> dict_del(doc, "metadata")]
         ELSE [ret |-> doc, json_data |-> doc]

\* process_json_content that deletes the wrong key in model-result mode.
process_json_content_wrongkey(doc, keyword) ==
    IF keyword
    THEN [ret |-> [k \in {"ocr_results", "identified_keywords", "statistics"}
                     |-> dict_get(doc, k, EmptyObj)],
          json_data |-> doc]
    ELSE IF "statistics" \in DOMAIN doc
         THEN [ret |-> dict_del(doc, "statistics"),
               json_data |-> dict_del(doc, "statistics")]
         ELSE [ret |-> doc, json_data |-> doc]

\* process_json_content: .ret is the returned document, .json_data is the
\* caller's document object as the call leaves it.
process_json_content(doc, keyword) ==
    IF keyword
    THEN [ret |-> [k \in {"ocr_results", "identified_keywords", "statistics"}
                     |-> dict_get(doc, k, EmptyObj)],
          json_data |-> doc]
    ELSE IF "metadata" \in DOMAIN doc
         THEN [ret |-> dict_del(doc, "metadata"),
               json_data |-> dict_del(doc, "metadata")]
         ELSE [ret |-> doc, json_data |-> doc]

---------------------------------------------------------------------------
(* Publisher pipeline: discovery and resolution (src/process_data.py).     *)

IsImageName(f) ==
    \/ endswith(str_lower(f), <<".", "j", "p", "g">>)
    \/ endswith(str_lower(f), <<".", "j", "p", "e", "g">>)
    \/ endswith(str_lower(f), <<".", "p", "n", "g">>)

get_models(root, order) ==
    sorted(SelectSeq(os_listdir(root, order), LAMBDA d : os_path_isdir(root, d)))

get_image_files(dir, order) ==
    sorted(SelectSeq(os_listdir(dir, order), IsImageName))

\* get_latest_json taking the first of the sorted candidates, not the last.
get_latest_json_first(base_name, model_dir, order) ==
    LET json_files == SelectSeq(os_listdir(model_dir, order),
                                LAMBDA f : startswith(f, base_name))
    IN  IF json_files # <<>> THEN sorted(json_files)[1] ELSE None

get_latest_json(base_name, model_dir, order) ==
    LET json_files == SelectSeq(os_listdir(model_dir, order),
                                LAMBDA f : startswith(f, base_name))
    IN  IF json_files # <<>> THEN sorted(json_files)[Len(json_files)] ELSE None

---------------------------------------------------------------------------
(* Query service (src/app.py).                                             *)

get_available_models(root, order) ==
    SelectSeq(os_listdir(root, order), LAMBDA d : os_path_isdir(root, d))

\* get_latest_json of app.py; os.listdir raises when RESULTS_FOLDER/<model>
\* is not a directory.
App_get_latest_json(image_filename, model, root, order) ==
    LET base_name == os_path_splitext(image_filename)[1] IN
    IF ~os_path_isdir(root, model) THEN FileNotFoundError
    ELSE LET json_files == SelectSeq(os_listdir(root[model].files, order),
                                     LAMBDA f : startswith(f, base_name))
         IN  IF json_files = <<>> THEN None
             ELSE sorted(json_files)[Len(json_files)]

\* GET /api/files
App_get_files(dir, order) ==
    sorted(SelectSeq(os_listdir(dir, order),
                     LAMBDA f : endswith(f, <<".", "j", "p", "g">>)))

InSeq(x, s) == \E k \in 1..Len(s) : s[k] = x

\* get_json resolving the artifact before it checks the model.
App_get_json_resolve_first(model, filename, root, rootOrder, fileOrder) ==
    LET json_filename == App_get_latest_json(filename, model, root, fileOrder) IN
    IF json_filename = FileNotFoundError
    THEN [status |-> 500, body |-> EmptyObj]
    ELSE IF ~InSeq(model, SelectSeq(os_listdir(root, rootOrder),
                                    LAMBDA d : os_path_isdir(root, d)))
    THEN [status |-> 404, body |-> [error |-> "Invalid model"]]
    ELSE IF json_filename = None
    THEN [status |-> 404, body |-> [error |-> "JSON not found"]]
    ELSE IF ~Parses(root[model].files[json_filename])
    THEN [status |-> 500, body |-> EmptyObj]
    ELSE [status |-> 200, body |-> json_load(root[model].files[json_filename])]

\* GET /api/json/<model>/<filename>; an exception that leaves the view
\* function is answered with status 500.
App_get_json(model, filename, root, rootOrder, fileOrder) ==
    IF ~InSeq(model, get_available_models(root, rootOrder))
    THEN [status |-> 404, body |-> [error |-> "Invalid model"]]
    ELSE LET json_filename == App_get_latest_json(filename, model, root, fileOrder) IN
         IF json_filename = FileNotFoundError
         THEN [status |-> 500, body |-> EmptyObj]
         ELSE IF json_filename = None
         THEN [status |-> 404, body |-> [error |-> "JSON not found"]]
         ELSE IF ~Parses(root[model].files[json_filename])
         THEN [status |-> 500, body |-> EmptyObj]
         ELSE [status |-> 200, body |-> json_load(root[model].files[json_filename])]

---------------------------------------------------------------------------
(* The source trees and inputs the model ranges over.                      *)

ImageNames ==
    { <<"a", ".", "j", "p", "g">>,
      <<"a", ".", "P", "N", "G">>,
      <<"a", "b", ".", "j", "p", "e", "g">>,
      <<"n", ".", "t", "x", "t">> }

M1 == <<"m", "1">>
M2 == <<"m", "2">>
RootNames == {M1, M2}

ArtifactNames ==
    { <<"a", "_", "1", ".", "j", "s", "o", "n">>,
      <<"a", "_", "2", ".", "j", "s", "o", "n">>,
      <<"a", "b", "_", "1", ".", "j", "s", "o", "n">> }

DocM == [metadata |-> [n |-> 1], statistics |-> [n |-> 2]]
DocP == [ocr_results |-> [n |-> 1], text |-> [n |-> 2]]
DocQ == [metadata |-> EmptyObj, identified_keywords |-> [n |-> 2], text |-> [n |-> 1]]

\* The document a source JSON file of a given name holds when it is well
\* formed: different names hold different documents.
DocOf(name) ==
    CASE name = <<"a", "_", "1", ".", "j", "s", "o", "n">> -> DocP
      [] name = <<"a", "_", "2", ".", "j", "s", "o", "n">> -> DocM
      [] OTHER -> DocQ

\* What a source JSON file can hold: nothing (malformed) or its document.
SourceFiles(name) == {<<>>, <<DocOf(name)>>}

\* A place for a JSON file: a directory of the source tree and a name.
Slots == {"m1", "m2", "kw"} \X ArtifactNames

DirOfSlots(placed, d) ==
    [n \in {s[2] : s \in {t \in DOMAIN placed : t[1] = d}} |-> placed[<<d, n>>]]

ImagesInit ==
    \E S \in SUBSET ImageNames :
       /\ Cardinality(S) <= MaxImages
       /\ imageDir = [n \in S |-> <<n>>]

JsonInit ==
    \E m2dir \in BOOLEAN :
    \E S \in SUBSET Slots :
       /\ Cardinality(S) <= MaxFiles
       /\ m2dir \/ \A s \in S : s[1] # "m2"
       /\ \E placed \in {f \in [S -> {<<>>, <<DocM>>, <<DocP>>, <<DocQ>>}] :
                            \A t \in S : f[t] \in SourceFiles(t[2])} :
             /\ resultsRoot =
                   (M1 :> [isdir |-> TRUE, files |-> DirOfSlots(placed, "m1")]) @@
                   (M2 :> [isdir |-> m2dir, files |-> DirOfSlots(placed, "m2")])
             /\ keywordsDir = DirOfSlots(placed, "kw")

TreeInit == ImagesInit /\ JsonInit

EmptyOut ==
    [dirs |-> {}, index |-> <<>>, images |-> <<>>, results |-> <<>>, keywords |-> <<>>]

NoResp == [op |-> "none", a1 |-> <<>>, a2 |-> <<>>, status |-> 0, body |-> <<>>]

PubIdle ==
    /\ out = EmptyOut
    /\ pc = "idle"
    /\ rerun = FALSE
    /\ models = <<>>
    /\ images = <<>>
    /\ i = 0
    /\ j = 0
    /\ logged = 0
    /\ out1 = EmptyOut

ReshapeIdle ==
    /\ json_data = EmptyObj
    /\ is_keyword = FALSE
    /\ arg0 = EmptyObj
    /\ ret = EmptyObj
    /\ called = FALSE

---------------------------------------------------------------------------
(* Reshaping one document.                                                 *)

Keys == {"ocr_results", "identified_keywords", "statistics", "metadata", "text"}

Values == {EmptyObj} \cup {[n |-> v] : v \in 1..MaxVal}

Docs == UNION {[K -> Values] : K \in SUBSET Keys}

InitReshape ==
    /\ imageDir = <<>>
    /\ resultsRoot = <<>>
    /\ keywordsDir = <<>>
    /\ PubIdle
    /\ resp = NoResp
    /\ json_data \in Docs
    /\ is_keyword \in BOOLEAN
    /\ arg0 = json_data
    /\ ret = EmptyObj
    /\ called = FALSE

\* result = processor.process_json_content(json_data, is_keyword)
Reshape ==
    /\ ~called
    /\ called' = TRUE
    /\ LET r == process_json_content(json_data, is_keyword) IN
          /\ ret' = r.ret
          /\ json_data' = r.json_data
    /\ UNCHANGED <<treeVars, pubVars, resp, is_keyword, arg0>>

NextReshape == Reshape

SpecReshape == InitReshape /\ [][NextReshape]_vars

---------------------------------------------------------------------------
(* Claims about the reshaper, checked under SpecReshape.                   *)

AnnotationKeys == {"ocr_results", "identified_keywords", "statistics"}

\* C2: in annotation mode the returned document has exactly the keys
\* ocr_results, identified_keywords and statistics; each carries the input's
\* value when the input has the key and an empty mapping otherwise; every
\* other key of the input is dropped.
C2_AnnotationShape ==
    (called /\ is_keyword) =>
        /\ DOMAIN ret = AnnotationKeys
        /\ \A k \in AnnotationKeys :
              ret[k] = IF k \in DOMAIN arg0 THEN arg0[k] ELSE EmptyObj

C2_Witness ==
    /\ called
    /\ is_keyword
    /\ "ocr_results" \notin DOMAIN arg0
    /\ "statistics" \in DOMAIN arg0
    /\ arg0["statistics"] # EmptyObj
    /\ "metadata" \in DOMAIN arg0
    /\ "text" \in DOMAIN arg0

\* C3: in model-result mode the returned document has no metadata key and
\* has exactly the input's other keys, each with the input's value.
C3_ModelResultShape ==
    (called /\ ~is_keyword) =>
        /\ "metadata" \notin DOMAIN ret
        /\ DOMAIN ret = DOMAIN arg0 \ {"metadata"}
        /\ \A k \in DOMAIN ret : ret[k] = arg0[k]

C3_Witness ==
    /\ called
    /\ ~is_keyword
    /\ "metadata" \in DOMAIN arg0
    /\ "statistics" \in DOMAIN arg0
    /\ "text" \in DOMAIN arg0
    /\ arg0["text"] # EmptyObj

\* C10: the document passed to the reshaper has the same keys and values
\* after the call as before it, in both modes.
C10_InputUntouched == called => json_data = arg0

---------------------------------------------------------------------------
(* The read operations of both components, each applied to the source      *)
(* tree; resp records the operation, its arguments and its answer.  The    *)
(* operations keep no state between calls, so a behaviour is one call.     *)

BaseNames == { <<"a">>, <<"a", "b">>, <<"b">>, <<"a", "_", "2">>, <<"a", ".", "b">> }

ImageExts == { <<".", "j", "p", "g">>, <<".", "P", "N", "G">> }

Unknown == <<"x">>

KeywordsId == <<"k", "w">>

\* The operations on raw_images/ do not read the JSON files and the
\* operations on the JSON files do not read raw_images/: one of the two is
\* left empty.
InitQuery ==
    /\ TreeInit
    /\ \/ imageDir = <<>>
       \/ keywordsDir = <<>> /\ \A m \in RootNames : resultsRoot[m].files = <<>>
    /\ PubIdle
    /\ ReshapeIdle
    /\ resp = NoResp

\* WebsiteDataProcessor.get_models()
Pipeline_get_models ==
    /\ resp = NoResp
    /\ \E order \in ListingOrders(resultsRoot) :
          resp' = [op |-> "get_models", a1 |-> <<>>, a2 |-> <<>>, status |-> 0,
                   body |-> get_models(resultsRoot, order)]
    /\ UNCHANGED <<treeVars, pubVars, reshapeVars>>

\* WebsiteDataProcessor.get_image_files()
Pipeline_get_image_files ==
    /\ resp = NoResp
    /\ \E order \in ListingOrders(imageDir) :
          resp' = [op |-> "get_image_files", a1 |-> <<>>, a2 |-> <<>>, status |-> 0,
                   body |-> get_image_files(imageDir, order)]
    /\ UNCHANGED <<treeVars, pubVars, reshapeVars>>

\* WebsiteDataProcessor.get_latest_json(base_name, model_dir), on the
\* annotation directory or on a model's directory
Pipeline_get_latest_json ==
    /\ resp = NoResp
    /\ \E base_name \in BaseNames :
          \/ \E order \in ListingOrders(keywordsDir) :
                resp' = [op |-> "get_latest_json", a1 |-> base_name, a2 |-> KeywordsId,
                         status |-> 0,
                         body |-> get_latest_json(base_name, keywordsDir, order)]
          \/ \E m \in RootNames : \E order \in ListingOrders(resultsRoot[m].files) :
                /\ os_path_isdir(resultsRoot, m)
                /\ resp' = [op |-> "get_latest_json", a1 |-> base_name, a2 |-> m,
                            status |-> 0,
                            body |-> get_latest_json(base_name, resultsRoot[m].files, order)]
    /\ UNCHANGED <<treeVars, pubVars, reshapeVars>>

\* app.get_latest_json(image_filename, model), called with the file name of
\* an image whose base name is base_name
App_resolve ==
    /\ resp = NoResp
    /\ \E base_name \in BaseNames, ext \in ImageExts, m \in RootNames :
       \E order \in ListingOrders(resultsRoot[m].files) :
          /\ os_path_isdir(resultsRoot, m)
          /\ resp' = [op |-> "app.get_latest_json", a1 |-> base_name, a2 |-> m,
                      status |-> 0,
                      body |-> App_get_latest_json(base_name \o ext, m, resultsRoot, order)]
    /\ UNCHANGED <<treeVars, pubVars, reshapeVars>>

\* GET /api/models
Api_models ==
    /\ resp = NoResp
    /\ \E order \in ListingOrders(resultsRoot) :
          resp' = [op |-> "/api/models", a1 |-> <<>>, a2 |-> <<>>, status |-> 200,
                   body |-> get_available_models(resultsRoot, order)]
    /\ UNCHANGED <<treeVars, pubVars, reshapeVars>>

\* GET /api/files
Api_files ==
    /\ resp = NoResp
    /\ \E order \in ListingOrders(imageDir) :
          resp' = [op |-> "/api/files", a1 |-> <<>>, a2 |-> <<>>, status |-> 200,
                   body |-> App_get_files(imageDir, order)]
    /\ UNCHANGED <<treeVars, pubVars, reshapeVars>>

\* GET /api/json/<model>/<filename>
Api_json ==
    /\ resp = NoResp
    /\ \E model \in RootNames \cup {Unknown}, base_name \in BaseNames, ext \in ImageExts,
          rootOrder \in ListingOrders(resultsRoot) :
       \E fileOrder \in ListingOrders(IF os_path_isdir(resultsRoot, model)
                                      THEN resultsRoot[model].files ELSE <<>>) :
          LET r == App_get_json(model, base_name \o ext, resultsRoot, rootOrder, fileOrder)
          IN  resp' = [op |-> "/api/json", a1 |-> base_name, a2 |-> model,
                       status |-> r.status, body |-> r.body]
    /\ UNCHANGED <<treeVars, pubVars, reshapeVars>>

NextQuery ==
    \/ Pipeline_get_models
    \/ Pipeline_get_image_files
    \/ Pipeline_get_latest_json
    \/ App_resolve
    \/ Api_models
    \/ Api_files
    \/ Api_json

SpecQuery == InitQuery /\ [][NextQuery]_vars

---------------------------------------------------------------------------
(* Claims about the read operations, checked under SpecQuery.              *)

\* b is a prefix of f
IsPrefix(b, f) == \E k \in 0..Len(f) : SubSeq(f, 1, k) = b

\* s comes strictly before t in lexicographic code point order
LexLess(s, t) ==
    \E k \in 1..Len(t) :
       /\ k - 1 <= Len(s)
       /\ \A l \in 1..(k - 1) : s[l] = t[l]
       /\ k > Len(s) \/ ord(s[k]) < ord(t[k])

Matching(dir, b) == {f \in DOMAIN dir : IsPrefix(b, f)}

IsGreatest(x, S) == x \in S /\ \A y \in S : y = x \/ LexLess(y, x)

\* list holds exactly the members of S, in strictly increasing order
IsSortedListOf(list, S) ==
    /\ {list[k] : k \in 1..Len(list)} = S
    /\ \A k, l \in 1..Len(list) : k < l => LexLess(list[k], list[l])

RespDir == IF resp.a2 = KeywordsId THEN keywordsDir ELSE resultsRoot[resp.a2].files

\* C1: both resolvers return the lexicographically greatest entry of the
\* directory whose name starts with the base name, and None exactly when no
\* entry starts with it.
C1_ResolveLatest ==
    resp.op \in {"get_latest_json", "app.get_latest_json"} =>
        /\ (resp.body = None) <=> (Matching(RespDir, resp.a1) = {})
        /\ resp.body # None => IsGreatest(resp.body, Matching(RespDir, resp.a1))

\* base name "a" also matches "ab_1.json", which is then the greatest
C1_Witness ==
    /\ resp.op = "app.get_latest_json"
    /\ resp.a1 = <<"a">>
    /\ Cardinality(Matching(RespDir, resp.a1)) >= 2
    /\ resp.body = <<"a", "b", "_", "1", ".", "j", "s", "o", "n">>

IsModelDir(m) == m \in DOMAIN resultsRoot /\ resultsRoot[m].isdir

\* C6: fetch-JSON answers 404 "Invalid model" when the model is not a
\* subdirectory of the results root, 404 "JSON not found" when the model is
\* known and no entry starts with the base name, and otherwise the parsed
\* content of the greatest matching artifact (when that artifact parses).
C6_FetchJson ==
    resp.op = "/api/json" =>
        IF ~IsModelDir(resp.a2)
        THEN resp.status = 404 /\ resp.body = [error |-> "Invalid model"]
        ELSE IF Matching(RespDir, resp.a1) = {}
        THEN resp.status = 404 /\ resp.body = [error |-> "JSON not found"]
        ELSE \A f \in Matching(RespDir, resp.a1) :
                (IsGreatest(f, Matching(RespDir, resp.a1)) /\ Len(RespDir[f]) = 1) =>
                    resp.status = 200 /\ resp.body = RespDir[f][1]

C6_Witness ==
    /\ resp.op = "/api/json"
    /\ IsModelDir(resp.a2)
    /\ Cardinality(Matching(RespDir, resp.a1)) >= 2
    /\ resp.status = 200
    /\ resp.body = DocM

IsImageAsset(f) ==
    \E ext \in { <<".", "j", "p", "g">>, <<".", "j", "p", "e", "g">>, <<".", "p", "n", "g">> } :
       \E k \in 0..Len(f) :
          /\ Len(f) - k = Len(ext)
          /\ \A l \in 1..Len(ext) : char_lower(f[k + l]) = ext[l]

\* C7: image discovery of the pipeline and GET /api/files both return
\* exactly the image assets of the images directory (.jpg, .jpeg or .png in
\* any case), in sorted order.
C7_ImageLists ==
    resp.op \in {"get_image_files", "/api/files"} =>
        IsSortedListOf(resp.body, {f \in DOMAIN imageDir : IsImageAsset(f)})

\* C8: get_models and GET /api/models both return exactly the names of the
\* subdirectories of the results root, without duplicates, in lexicographic
\* order, whatever the order of the directory listing.
C8_ModelLists ==
    resp.op \in {"get_models", "/api/models"} =>
        IsSortedListOf(resp.body, {m \in DOMAIN resultsRoot : IsModelDir(m)})

---------------------------------------------------------------------------
(* The publisher: WebsiteDataProcessor.process(), run once and then once   *)
(* more on the same source tree.  pc names the statement about to run.     *)

Json == <<".", "j", "s", "o", "n">>

OutputDirs == {"data", "data/images", "data/results", "data/keywords"}

\* shutil.copy2(src_image, dst_image)
shutil_copy2(srcDir, dstDir, name) ==
    [n \in DOMAIN dstDir \cup {name} |-> IF n = name THEN srcDir[name] ELSE dstDir[n]]

\* os.makedirs(output_model_dir, exist_ok=True)
os_makedirs(results, model) ==
    IF model \in DOMAIN results THEN results ELSE results @@ (model :> <<>>)

\* base_name = os.path.splitext(image)[0]
base_name == os_path_splitext(images[i])[1]

\* what follows the body of `for model in models` for models[j], or the
\* keyword block when there is no model
NextModelOrImage(jj) ==
    IF jj < Len(models)
    THEN pc' = "model" /\ j' = jj + 1 /\ i' = i
    ELSE IF i < Len(images)
    THEN pc' = "copy" /\ j' = 0 /\ i' = i + 1
    ELSE pc' = "done" /\ j' = 0 /\ i' = i

Init ==
    /\ TreeInit
    /\ PubIdle
    /\ ReshapeIdle
    /\ resp = NoResp

\* process(): logger.info("Starting data processing...")
process_begin ==
    /\ pc = "idle"
    /\ pc' = "create_directory_structure"
    /\ UNCHANGED <<treeVars, out, rerun, models, images, i, j, logged, out1,
                   resp, reshapeVars>>

create_directory_structure ==
    /\ pc = "create_directory_structure"
    /\ out' = [out EXCEPT !.dirs = @ \cup OutputDirs]
    /\ pc' = "get_models"
    /\ UNCHANGED <<treeVars, rerun, models, images, i, j, logged, out1,
                   resp, reshapeVars>>

\* process_files: models = self.get_models()
process_files_get_models ==
    /\ pc = "get_models"
    /\ \E order \in ListingOrders(resultsRoot) : models' = get_models(resultsRoot, order)
    /\ pc' = "get_image_files"
    /\ UNCHANGED <<treeVars, out, rerun, images, i, j, logged, out1,
                   resp, reshapeVars>>

\* process_files: images = self.get_image_files()
process_files_get_image_files ==
    /\ pc = "get_image_files"
    /\ \E order \in ListingOrders(imageDir) : images' = get_image_files(imageDir, order)
    /\ pc' = "dump_models"
    /\ UNCHANGED <<treeVars, out, rerun, models, i, j, logged, out1,
                   resp, reshapeVars>>

\* process_files: json.dump(models, f) into models.json
process_files_dump_models ==
    /\ pc = "dump_models"
    /\ out' = [out EXCEPT !.index = open_w_dump(@, "models.json", models)]
    /\ pc' = "dump_files"
    /\ UNCHANGED <<treeVars, rerun, models, images, i, j, logged, out1,
                   resp, reshapeVars>>

\* process_files: json.dump(images, f) into files.json, then the loop begins
process_files_dump_files ==
    /\ pc = "dump_files"
    /\ out' = [out EXCEPT !.index = open_w_dump(@, "files.json", images)]
    /\ IF images = <<>>
       THEN pc' = "done" /\ i' = 0
       ELSE pc' = "copy" /\ i' = 1
    /\ j' = 0
    /\ UNCHANGED <<treeVars, rerun, models, images, logged, out1, resp, reshapeVars>>

\* process_files: shutil.copy2 of images[i]
process_files_copy_image ==
    /\ pc = "copy"
    /\ out' = [out EXCEPT !.images = shutil_copy2(imageDir, @, images[i])]
    /\ pc' = "keywords"
    /\ UNCHANGED <<treeVars, rerun, models, images, i, j, logged, out1,
                   resp, reshapeVars>>

\* process_files: the keyword block for images[i]
process_files_keywords ==
    /\ pc = "keywords"
    /\ \E order \in ListingOrders(keywordsDir) :
          LET keyword_json == get_latest_json(base_name, keywordsDir, order) IN
          IF keyword_json # None
          THEN /\ Parses(keywordsDir[keyword_json])
               /\ LET keyword_data == json_load(keywordsDir[keyword_json])
                      processed_keyword_data ==
                          process_json_content(keyword_data, TRUE).ret
                  IN  out' = [out EXCEPT !.keywords =
                                  open_w_dump(@, base_name \o Json, processed_keyword_data)]
          ELSE out' = out
    /\ NextModelOrImage(0)
    /\ UNCHANGED <<treeVars, rerun, models, images, logged, out1, resp, reshapeVars>>

\* the model block resolving in the annotation directory, not in model_dir
process_files_model_result_keywords_dir ==
    /\ pc = "model"
    /\ \E order \in ListingOrders(keywordsDir) :
          LET model == models[j]
              model_dir == keywordsDir
              json_file == get_latest_json(base_name, model_dir, order)
          IN  IF json_file # None
              THEN /\ Parses(model_dir[json_file])
                   /\ LET model_data == json_load(model_dir[json_file])
                          processed_model_data ==
                              process_json_content(model_data, FALSE).ret
                          made == os_makedirs(out.results, model)
                      IN  out' = [out EXCEPT !.results =
                                      [made EXCEPT ![model] =
                                          open_w_dump(@, base_name \o Json,
                                                      processed_model_data)]]
              ELSE out' = out
    /\ NextModelOrImage(j)
    /\ UNCHANGED <<treeVars, rerun, models, images, logged, out1, resp, reshapeVars>>

\* process_files: the body of `for model in models` for images[i], models[j]
process_files_model_result ==
    /\ pc = "model"
    /\ \E order \in ListingOrders(resultsRoot[models[j]].files) :
          LET model == models[j]
              model_dir == resultsRoot[model].files
              json_file == get_latest_json(base_name, model_dir, order)
          IN  IF json_file # None
              THEN /\ Parses(model_dir[json_file])
                   /\ LET model_data == json_load(model_dir[json_file])
                          processed_model_data ==
                              process_json_content(model_data, FALSE).ret
                          made == os_makedirs(out.results, model)
                      IN  out' = [out EXCEPT !.results =
                                      [made EXCEPT ![model] =
                                          open_w_dump(@, base_name \o Json,
                                                      processed_model_data)]]
              ELSE out' = out
    /\ NextModelOrImage(j)
    /\ UNCHANGED <<treeVars, rerun, models, images, logged, out1, resp, reshapeVars>>

\* an except clause that logs and starts over instead of re-raising
process_except_retry ==
    /\ logged' = logged + 1
    /\ pc' = "create_directory_structure"

\* process(): except Exception as e: logger.error(...); raise.  The
\* exception leaves process_files and process() in the step that raised it.
process_except ==
    /\ logged' = logged + 1
    /\ pc' = "raised"

\* json.load raises on the resolved annotation or model result
JSONDecodeError ==
    /\ \/ /\ pc = "keywords"
          /\ \E order \in ListingOrders(keywordsDir) :
                LET keyword_json == get_latest_json(base_name, keywordsDir, order) IN
                keyword_json # None /\ ~Parses(keywordsDir[keyword_json])
          /\ out' = out
       \/ /\ pc = "model"
          /\ \E order \in ListingOrders(resultsRoot[models[j]].files) :
                LET model == models[j]
                    model_dir == resultsRoot[model].files
                    json_file == get_latest_json(base_name, model_dir, order)
                IN  /\ json_file # None
                    /\ ~Parses(model_dir[json_file])
                    /\ out' = [out EXCEPT !.results = os_makedirs(@, model)]
    /\ process_except
    /\ UNCHANGED <<treeVars, rerun, models, images, i, j, out1, resp, reshapeVars>>

\* a file system call raises before it changes anything: makedirs, listdir,
\* open, copy2
OSError ==
    /\ pc \in {"create_directory_structure", "get_models", "get_image_files",
               "dump_models", "dump_files", "copy", "keywords", "model"}
    /\ process_except
    /\ UNCHANGED <<treeVars, out, rerun, models, images, i, j, out1, resp, reshapeVars>>

\* open(path, 'w') succeeds and empties the file, then the write raises
\* (as when the disk is full)
OSError_after_open ==
    /\ \/ /\ pc = "dump_models"
          /\ out' = [out EXCEPT !.index = open_w(@, "models.json")]
       \/ /\ pc = "dump_files"
          /\ out' = [out EXCEPT !.index = open_w(@, "files.json")]
       \/ /\ pc = "copy"
          /\ out' = [out EXCEPT !.images = open_w(@, images[i])]
       \/ /\ pc = "keywords"
          /\ \E order \in ListingOrders(keywordsDir) :
                LET keyword_json == get_latest_json(base_name, keywordsDir, order) IN
                /\ keyword_json # None
                /\ Parses(keywordsDir[keyword_json])
          /\ out' = [out EXCEPT !.keywords = open_w(@, base_name \o Json)]
       \/ /\ pc = "model"
          /\ \E order \in ListingOrders(resultsRoot[models[j]].files) :
                LET model == models[j]
                    model_dir == resultsRoot[model].files
                    json_file == get_latest_json(base_name, model_dir, order)
                IN  /\ json_file # None
                    /\ Parses(model_dir[json_file])
                    /\ out' = [out EXCEPT !.results =
                                   [os_makedirs(@, model) EXCEPT ![model] =
                                       open_w(@, base_name \o Json)]]
    /\ process_except
    /\ UNCHANGED <<treeVars, rerun, models, images, i, j, out1, resp, reshapeVars>>

\* main() is run a second time after the first run completed
process_again ==
    /\ pc = "done"
    /\ ~rerun
    /\ rerun' = TRUE
    /\ out1' = out
    /\ pc' = "idle"
    /\ models' = <<>>
    /\ images' = <<>>
    /\ i' = 0
    /\ j' = 0
    /\ UNCHANGED <<treeVars, out, logged, resp, reshapeVars>>

Next ==
    \/ process_begin
    \/ create_directory_structure
    \/ process_files_get_models
    \/ process_files_get_image_files
    \/ process_files_dump_models
    \/ process_files_dump_files
    \/ process_files_copy_image
    \/ process_files_keywords
    \/ process_files_model_result
    \/ JSONDecodeError
    \/ OSError
    \/ OSError_after_open
    \/ process_again

Spec == Init /\ [][Next]_vars

---------------------------------------------------------------------------
(* Claims about the publisher, checked under Spec.                         *)

\* C4: when publish has completed twice in a row on the unchanged source
\* tree, the output tree after the second run is the output tree the first
\* run left.
C4_Idempotent == (pc = "done" /\ rerun) => out = out1

C4_Witness ==
    /\ pc = "done"
    /\ rerun
    /\ Cardinality(DOMAIN out.images) >= 2
    /\ out.keywords # <<>>
    /\ out.results # <<>>

\* the base name of an image asset: the name without its image extension
BaseOf(f) ==
    CHOOSE b \in {SubSeq(f, 1, k) : k \in 0..Len(f)} :
       \E ext \in { <<".", "j", "p", "g">>, <<".", "j", "p", "e", "g">>,
                    <<".", "p", "n", "g">> } :
          /\ Len(b) + Len(ext) = Len(f)
          /\ \A l \in 1..Len(ext) : char_lower(f[Len(b) + l]) = ext[l]

AnnotationOf(doc) ==
    [k \in AnnotationKeys |-> IF k \in DOMAIN doc THEN doc[k] ELSE EmptyObj]

WithoutMetadata(doc) == [k \in DOMAIN doc \ {"metadata"} |-> doc[k]]

\* C5: after publish completes on an initially empty output tree, for every
\* image asset with base name b and every model m, results/<m>/<b>.json
\* exists iff an entry of m's directory starts with b, and then holds the
\* greatest such artifact without its metadata; keywords/<b>.json exists iff
\* an entry of the annotation directory starts with b, and then holds the
\* greatest such annotation reduced to the three annotation keys.
C5_Published ==
    (pc = "done" /\ ~rerun) =>
        \A image \in {f \in DOMAIN imageDir : IsImageAsset(f)} :
           LET b == BaseOf(image)
               K == Matching(keywordsDir, b)
           IN  /\ (b \o Json \in DOMAIN out.keywords) <=> (K # {})
               /\ \A f \in K :
                     IsGreatest(f, K) =>
                        out.keywords[b \o Json] = <<AnnotationOf(keywordsDir[f][1])>>
               /\ \A m \in {d \in DOMAIN resultsRoot : IsModelDir(d)} :
                     LET R == Matching(resultsRoot[m].files, b) IN
                     /\ (m \in DOMAIN out.results /\ b \o Json \in DOMAIN out.results[m])
                           <=> (R # {})
                     /\ \A f \in R :
                           IsGreatest(f, R) =>
                              out.results[m][b \o Json] =
                                  <<WithoutMetadata(resultsRoot[m].files[f][1])>>

\* image a.jpg, two candidates under m1, none under m2
C5_Witness ==
    /\ pc = "done"
    /\ ~rerun
    /\ <<"a", ".", "j", "p", "g">> \in DOMAIN imageDir
    /\ Cardinality(Matching(resultsRoot[M1].files, <<"a">>)) >= 2
    /\ IsModelDir(M2)
    /\ M1 \in DOMAIN out.results
    /\ <<"a">> \o Json \in DOMAIN out.results[M1]
    /\ M2 \notin DOMAIN out.results
    /\ <<"a">> \o Json \notin DOMAIN out.keywords

\* every file of directory d1 is in d2 with the same content
SameFiles(d1, d2) == \A n \in DOMAIN d1 : n \in DOMAIN d2 /\ d2[n] = d1[n]

\* the files of d1 that d2 lacks or holds with another content
Changed(d1, d2) == {n \in DOMAIN d1 : n \notin DOMAIN d2 \/ d2[n] # d1[n]}

\* every file of d1 is in d2, with the same content or empty
SameOrEmptied(d1, d2) ==
    \A n \in DOMAIN d1 : n \in DOMAIN d2 /\ (d2[n] = d1[n] \/ d2[n] = <<>>)

\* every file of output tree o1 is in o2 as it was
LeftInPlace(o1, o2) ==
    /\ o1.dirs \subseteq o2.dirs
    /\ SameFiles(o1.index, o2.index)
    /\ SameFiles(o1.images, o2.images)
    /\ SameFiles(o1.keywords, o2.keywords)
    /\ \A m \in DOMAIN o1.results :
          m \in DOMAIN o2.results /\ SameFiles(o1.results[m], o2.results[m])

\* every file of o1 is in o2 as it was, but for at most one file, which is
\* empty in o2
LeftInPlaceButOneEmptied(o1, o2) ==
    /\ o1.dirs \subseteq o2.dirs
    /\ SameOrEmptied(o1.index, o2.index)
    /\ SameOrEmptied(o1.images, o2.images)
    /\ SameOrEmptied(o1.keywords, o2.keywords)
    /\ \A m \in DOMAIN o1.results :
          m \in DOMAIN o2.results /\ SameOrEmptied(o1.results[m], o2.results[m])
    /\ \A m \in DOMAIN o1.results :
          Cardinality(Changed(o1.index, o2.index)) + Cardinality(Changed(o1.images, o2.images))
            + Cardinality(Changed(o1.keywords, o2.keywords))
            + Cardinality(Changed(o1.results[m], o2.results[m])) <= 1
    /\ Cardinality(Changed(o1.index, o2.index)) + Cardinality(Changed(o1.images, o2.images))
         + Cardinality(Changed(o1.keywords, o2.keywords)) <= 1
    /\ Cardinality({m \in DOMAIN o1.results : Changed(o1.results[m], o2.results[m]) # {}}) <= 1

PerImage == {"copy", "keywords", "model"}

\* what every step of a run does about failure, whatever the failing step
\* leaves of the files
FailFast ==
    \* an error is logged once, re-raised, and ends the run
    /\ logged' # logged => (logged' = logged + 1 /\ pc' = "raised")
    /\ pc' = "raised" => logged' = 1
    \* after it nothing is processed, written or retried
    /\ pc = "raised" => (pc' = "raised" /\ out' = out)
    \* the two index files are written before any per-image work, and a
    \* failure in the per-image work leaves them as written
    /\ pc \in PerImage =>
          /\ DOMAIN out.index = {"models.json", "files.json"}
          /\ out.index["models.json"] = <<models>>
          /\ out.index["files.json"] = <<images>>
          /\ pc' = "raised" => out'.index = out.index

\* C9 as stated, for a run on an initially empty output tree (every file of
\* the output tree was then written by this run): a failing step stops the
\* run, the error is logged and re-raised, nothing later is processed or
\* retried, and every file written before the failure is left as written.
C9_FailFastFilesIntact ==
    [][/\ FailFast
       /\ (~rerun /\ pc' = "raised") => LeftInPlace(out, out')]_vars

\* C9 amended: as above, in every run, except that the one file the failing
\* step had opened for writing may be left empty.
C9_FailFast ==
    [][/\ FailFast
       /\ pc' = "raised" => LeftInPlaceButOneEmptied(out, out')]_vars

\* the run failed at the second image, whose annotation file the first
\* image had written and the failing write emptied
C9_Witness ==
    /\ pc = "raised"
    /\ ~rerun
    /\ logged = 1
    /\ i = 2
    /\ DOMAIN out.index = {"models.json", "files.json"}
    /\ Cardinality(DOMAIN out.images) = 2
    /\ \E n \in DOMAIN out.keywords : out.keywords[n] = <<>>

====
